---- MODULE Spec2Model ----
(***************************************************************************)
(* pyet/penman.py: the evapotranspiration formulas and their helpers.      *)
(*                                                                         *)
(* The functions are pure, so a behaviour is one call: Init is the idle    *)
(* interpreter, each action is one function called with arguments drawn    *)
(* from small sets, and the state afterwards holds what the caller sees:   *)
(* the returned value or the raised exception, and what was printed.       *)
(*                                                                         *)
(* Numbers are IEEE-754 binary64 values, computed with round-to-nearest-   *)
(* even on 53-bit significands held as base-2^15 limbs, so that an         *)
(* equality between two floating-point expressions is decided by the       *)
(* arithmetic.  Overflow, underflow and subnormals lie outside the range   *)
(* these formulas produce and are not modelled; zero carries no sign.      *)
(***************************************************************************)
EXTENDS Integers, Sequences, FiniteSets, TLC

(***************************************************************************)
(* Natural numbers of any size: little-endian sequences of base-B limbs    *)
(* with no leading zero limb; <<>> is zero.  Carries are resolved by       *)
(* look-ahead rather than by a recursion over the limbs.                   *)
(***************************************************************************)
B == 32768
LimbBits == 15

Max(x, y) == IF x >= y THEN x ELSE y
Min(x, y) == IF x <= y THEN x ELSE y

\* the number of bits of a limb 0 <= n < B
IntBitLen(n) == CHOOSE k \in 0..LimbBits : n < 2^k /\ (k = 0 \/ n >= 2^(k - 1))

Limb(a, i) == IF 1 <= i /\ i <= Len(a) THEN a[i] ELSE 0

BNorm(a) ==
    LET nz == {i \in 1..Len(a) : a[i] # 0}
    IN  IF nz = {} THEN <<>>
        ELSE SubSeq(a, 1, CHOOSE i \in nz : \A k \in nz : k <= i)

BFromInt(n) == BNorm(<<n % B, (n \div B) % B, n \div (B * B)>>)

BAdd(a, b) ==
    LET n == Max(Len(a), Len(b)) + 1
        s(i) == Limb(a, i) + Limb(b, i)
        carry(i) == \E j \in 1..(i - 1) :
                       s(j) >= B /\ \A k \in (j + 1)..(i - 1) : s(k) = B - 1
    IN  BNorm([i \in 1..n |-> (s(i) + IF carry(i) THEN 1 ELSE 0) % B])

\* a - b, for a >= b
BSub(a, b) ==
    LET borrow(i) == \E j \in 1..(i - 1) :
                        Limb(a, j) < Limb(b, j)
                        /\ \A k \in (j + 1)..(i - 1) : Limb(a, k) = Limb(b, k)
    IN  BNorm([i \in 1..Len(a) |->
                 (Limb(a, i) - Limb(b, i) - (IF borrow(i) THEN 1 ELSE 0) + B) % B])

BCmp(a, b) ==
    IF Len(a) > Len(b) THEN 1
    ELSE IF Len(a) < Len(b) THEN -1
    ELSE LET df == {i \in 1..Len(a) : a[i] # b[i]}
         IN  IF df = {} THEN 0
             ELSE LET i == CHOOSE i \in df : \A k \in df : k <= i
                  IN  IF a[i] > b[i] THEN 1 ELSE -1

\* the number whose limb i holds v[i] < B * B
BCarry(v) ==
    BAdd([i \in 1..Len(v) |-> v[i] % B],
         [i \in 1..(Len(v) + 1) |-> IF i = 1 THEN 0 ELSE v[i - 1] \div B])

\* a * k, for 0 <= k < B
BMulSmall(a, k) == BCarry([i \in 1..Len(a) |-> a[i] * k])

RECURSIVE SeqSum(_)
SeqSum(v) == IF v = <<>> THEN 0 ELSE v[1] + SeqSum(Tail(v))

\* column c of the product: the low and the high halves of the limb products
BMulCol(a, b, c, high) ==
    SeqSum([i \in 1..Len(a) |->
              IF high THEN (a[i] * Limb(b, c + 1 - i)) \div B
                      ELSE (a[i] * Limb(b, c + 1 - i)) % B])

\* for operands of at most B / 2 limbs in all
BMul(a, b) ==
    LET n == Len(a) + Len(b)
        lo == [c \in 1..n |-> BMulCol(a, b, c, FALSE)]
        hi == [c \in 1..n |-> IF c = 1 THEN 0 ELSE BMulCol(a, b, c - 1, TRUE)]
    IN  BAdd(BCarry(lo), BCarry(hi))

BShl(a, n) ==
    LET q == n \div LimbBits
        p == 2^(n % LimbBits)
    IN  BNorm([i \in 1..(Len(a) + q + 1) |->
                 ((Limb(a, i - q) * p) % B) + ((Limb(a, i - q - 1) * p) \div B)])

BShr(a, n) ==
    LET q == n \div LimbBits
        p == 2^(n % LimbBits)
    IN  BNorm([i \in 1..(Len(a) - q) |->
                 (Limb(a, i + q) \div p) + ((Limb(a, i + q + 1) % p) * (B \div p))])

BBitLen(a) ==
    IF a = <<>> THEN 0 ELSE LimbBits * (Len(a) - 1) + IntBitLen(a[Len(a)])

BIsOdd(a) == a # <<>> /\ a[1] % 2 = 1

(***************************************************************************)
(* Long division (Knuth's algorithm D) of a by b > 0, one quotient limb    *)
(* per step from the top limb of a down.                                   *)
(***************************************************************************)
RECURSIVE BDivAt(_, _, _, _, _)
RECURSIVE QStep(_, _, _, _, _, _)

\* limb i of the quotient is the largest qhat with d * qhat <= cur
QStep(a, d, i, cur, q, qhat) ==
    LET p == BMulSmall(d, qhat)
    IN  IF BCmp(p, cur) > 0 THEN QStep(a, d, i, cur, q, qhat - 1)
        ELSE BDivAt(a, d, i - 1, BSub(cur, p), <<qhat>> \o q)

\* r < d is the remainder of the limbs above i, q their quotient;
\* d is normalised (its top limb is >= B/2), so the estimate is at most 2 off
BDivAt(a, d, i, r, q) ==
    IF i = 0 THEN [q |-> q, r |-> r]
    ELSE LET cur  == BNorm(<<a[i]>> \o r)
             n    == Len(d)
             top2 == Limb(cur, n + 1) * B + Limb(cur, n)
         IN  QStep(a, d, i, cur, q, Min(top2 \div d[n], B - 1))

BDivMod(a, b) ==
    LET sh == LimbBits - IntBitLen(b[Len(b)])
        n  == BShl(a, sh)
        d  == BShl(b, sh)
        k  == Min(Len(n), Len(d) - 1)
        qr == BDivAt(n, d, Len(n) - k, BNorm(SubSeq(n, Len(n) - k + 1, Len(n))), <<>>)
    IN  [q |-> BNorm(qr.q), r |-> BShr(qr.r, sh)]

(***************************************************************************)
(* binary64 numbers.  A finite value is (-1)^s * m * 2^e with m = 0 or     *)
(* 2^52 <= m < 2^53; every operation rounds its exact result to nearest,   *)
(* ties to even.  Exponent overflow and subnormals are outside the values  *)
(* these formulas produce and are not modelled; zero carries no sign.      *)
(***************************************************************************)
(***************************************************************************)
(* Do(f, a) is the call of f with the keyword arguments a.  Every call     *)
(* between the definitions below goes through it.                          *)
(***************************************************************************)
RECURSIVE Do(_, _)

MantBits == 53

NaN == [c |-> "nan", s |-> 0, m |-> <<>>, e |-> 0]
Inf(s) == [c |-> "inf", s |-> s, m |-> <<>>, e |-> 0]
Zero == [c |-> "fin", s |-> 0, m |-> <<>>, e |-> 0]

IsZero(x) == x.c = "fin" /\ x.m = <<>>
SignXor(a, b) == (a + b) % 2

\* the binary64 nearest to (-1)^s * (a + t) * 2^e, where 0 <= t < 1 and
\* sticky says whether t > 0; a needs at least 55 bits when sticky
FRound(s, a, e, sticky) ==
    LET n == BBitLen(a)
    IN  IF n = 0 THEN Zero
        ELSE IF n <= MantBits
        THEN [c |-> "fin", s |-> s, m |-> BShl(a, MantBits - n),
              e |-> e - (MantBits - n)]
        ELSE LET sh   == n - MantBits
                 q    == BShr(a, sh)
                 rem  == BSub(a, BShl(q, sh))
                 half == BShl(<<1>>, sh - 1)
                 cmp  == BCmp(rem, half)
                 up   == cmp > 0 \/ (cmp = 0 /\ (sticky \/ BIsOdd(q)))
                 q1   == IF up THEN BAdd(q, <<1>>) ELSE q
             IN  IF BBitLen(q1) > MantBits
                 THEN [c |-> "fin", s |-> s, m |-> BShr(q1, 1), e |-> e + sh + 1]
                 ELSE [c |-> "fin", s |-> s, m |-> q1, e |-> e + sh]

FromInt(n) == IF n < 0 THEN Do("FRound", [s |-> 1, a |-> BFromInt(-n), e |-> 0, sticky |-> FALSE])
                       ELSE Do("FRound", [s |-> 0, a |-> BFromInt(n), e |-> 0, sticky |-> FALSE])

FNeg(x) == IF x.c = "nan" \/ IsZero(x) THEN x ELSE [x EXCEPT !.s = 1 - x.s]

FMul(x, y) ==
    IF x.c = "nan" \/ y.c = "nan" THEN NaN
    ELSE IF x.c = "inf" \/ y.c = "inf"
    THEN IF IsZero(x) \/ IsZero(y) THEN NaN ELSE Inf(SignXor(x.s, y.s))
    ELSE IF IsZero(x) \/ IsZero(y) THEN Zero
    ELSE Do("FRound", [s |-> SignXor(x.s, y.s), a |-> BMul(x.m, y.m), e |-> x.e + y.e, sticky |-> FALSE])

DivGuard == 60

\* IEEE division: x/0 is an infinity (0/0 a NaN), never an exception
FDiv(x, y) ==
    IF x.c = "nan" \/ y.c = "nan" THEN NaN
    ELSE IF x.c = "inf"
    THEN IF y.c = "inf" THEN NaN ELSE Inf(SignXor(x.s, y.s))
    ELSE IF y.c = "inf" THEN Zero
    ELSE IF IsZero(y) THEN IF IsZero(x) THEN NaN ELSE Inf(x.s)
    ELSE IF IsZero(x) THEN Zero
    ELSE LET qr == BDivMod(BShl(x.m, DivGuard), y.m)
         IN  Do("FRound", [s |-> SignXor(x.s, y.s), a |-> qr.q, e |-> x.e - y.e - DivGuard, sticky |-> qr.r # <<>>])

\* x + y for finite non-zero x, y with x.e >= y.e
FAddFin(x, y) ==
    LET d == x.e - y.e
    IN  IF d > DivGuard THEN x
        ELSE LET a == BShl(x.m, d)
                 c == BCmp(a, y.m)
             IN  IF x.s = y.s THEN Do("FRound", [s |-> x.s, a |-> BAdd(a, y.m), e |-> y.e, sticky |-> FALSE])
                 ELSE IF c = 0 THEN Zero
                 ELSE IF c > 0 THEN Do("FRound", [s |-> x.s, a |-> BSub(a, y.m), e |-> y.e, sticky |-> FALSE])
                 ELSE Do("FRound", [s |-> y.s, a |-> BSub(y.m, a), e |-> y.e, sticky |-> FALSE])

FAdd(x, y) ==
    IF x.c = "nan" \/ y.c = "nan" THEN NaN
    ELSE IF x.c = "inf"
    THEN IF y.c = "inf" /\ y.s # x.s THEN NaN ELSE x
    ELSE IF y.c = "inf" THEN y
    ELSE IF IsZero(x) THEN y
    ELSE IF IsZero(y) THEN x
    ELSE IF x.e >= y.e THEN FAddFin(x, y) ELSE FAddFin(y, x)

FSub(x, y) == FAdd(x, FNeg(y))

\* x ** n for an integer n >= 1, rounded once (libm pow on an integral power)
RECURSIVE BPow(_, _)
BPow(a, n) ==
    IF n = 1 THEN a
    ELSE IF n % 2 = 0 THEN LET h == BPow(a, n \div 2) IN BMul(h, h)
    ELSE BMul(a, BPow(a, n - 1))

FPowInt(x, n) ==
    IF x.c = "nan" THEN NaN
    ELSE IF x.c = "inf" THEN Inf(IF n % 2 = 1 THEN x.s ELSE 0)
    ELSE IF IsZero(x) THEN Zero
    ELSE Do("FRound", [s |-> IF n % 2 = 1 THEN x.s ELSE 0, a |-> BPow(x.m, n), e |-> n * x.e, sticky |-> FALSE])

\* floor of the square root of a, by Newton's iteration from above
RECURSIVE BSqrtFrom(_, _)
BSqrtFrom(a, x) ==
    LET y == BShr(BAdd(x, BDivMod(a, x).q), 1)
    IN  IF BCmp(y, x) >= 0 THEN x ELSE BSqrtFrom(a, y)

BSqrt(a) == IF a = <<>> THEN a ELSE BSqrtFrom(a, BShl(<<1>>, (BBitLen(a) + 1) \div 2))

SqrtGuard == 58

FSqrt(x) ==
    IF x.c = "nan" THEN NaN
    ELSE IF IsZero(x) THEN Zero
    ELSE IF x.s = 1 THEN NaN
    ELSE IF x.c = "inf" THEN x
    ELSE LET k == SqrtGuard + ((x.e - SqrtGuard) % 2)
             a == BShl(x.m, k)
             r == BSqrt(a)
         IN  Do("FRound", [s |-> 0, a |-> r, e |-> (x.e - k) \div 2, sticky |-> BMul(r, r) # a])

RECURSIVE BPow10(_)
BPow10(k) == IF k = 0 THEN <<1>> ELSE BMulSmall(BPow10(k - 1), 10)

\* the decimal literal n * 10^-k as the interpreter reads it: the nearest
\* binary64 (n and 10^k are exact, and division rounds correctly)
Dec(n, k) == Do("/", [x |-> FromInt(n), y |-> Do("FRound", [s |-> 0, a |-> BPow10(k), e |-> 0, sticky |-> FALSE])])

(***************************************************************************)
(* Python values.  A value is None, a Python number ("py"), a numpy float64 *)
(* scalar ("np"), a pandas Series ("S": sorted labels idx, values v) or a   *)
(* raised exception ("exc").                                               *)
(***************************************************************************)
None == [k |-> "None"]
Py(x) == [k |-> "py", v |-> x]
Np(x) == [k |-> "np", v |-> x]
\* a Series holds evaluated values
Series(idx, v) == [k |-> "S", idx |-> idx, v |-> SubSeq(v, 1, Len(idx))]
Raise(e) == [k |-> "exc", e |-> e]
PyInt(n) == Py(FromInt(n))
Lit(n, k) == Py(Do("Dec", [n |-> n, k |-> k]))

IsNone(a) == a.k = "None"
IsExc(a) == a.k = "exc"

\* value of Series a at label d; a label the Series lacks reindexes to NaN
At(a, d) ==
  LET pos == {i \in 1..Len(a.idx) : a.idx[i] = d}
  IN IF pos = {} THEN NaN ELSE a.v[CHOOSE i \in pos : TRUE]

SortedSeq(S) ==
  [i \in 1..Cardinality(S) |-> CHOOSE d \in S : Cardinality({e \in S : e < d}) = i - 1]

Range(f) == {f[i] : i \in 1..Len(f)}

\* pandas aligns two Series on the union of their labels
Align(a, b) == IF a.idx = b.idx THEN a.idx ELSE SortedSeq(Range(a.idx) \cup Range(b.idx))

\* a binary arithmetic operator of Python applied to two evaluated operands
Bin(op, a, b) ==
  IF IsExc(a) THEN a
  ELSE IF IsExc(b) THEN b
  ELSE IF IsNone(a) \/ IsNone(b) THEN Raise("TypeError")
  ELSE IF a.k = "S" /\ b.k = "S"
    THEN LET idx == Align(a, b)
         IN Series(idx, [i \in 1..Len(idx) |-> Do(op, [x |-> At(a, idx[i]), y |-> At(b, idx[i])])])
  ELSE IF a.k = "S"
    THEN Series(a.idx, [i \in 1..Len(a.idx) |-> Do(op, [x |-> a.v[i], y |-> b.v])])
  ELSE IF b.k = "S"
    THEN Series(b.idx, [i \in 1..Len(b.idx) |-> Do(op, [x |-> a.v, y |-> b.v[i]])])
  ELSE IF op = "/" /\ a.k = "py" /\ b.k = "py" /\ IsZero(b.v)
    THEN Raise("ZeroDivisionError")
  ELSE [k |-> IF a.k = "np" \/ b.k = "np" THEN "np" ELSE "py", v |-> Do(op, [x |-> a.v, y |-> b.v])]

Add(a, b) == Do("Bin", [op |-> "+", a |-> a, b |-> b])
Sub(a, b) == Do("Bin", [op |-> "-", a |-> a, b |-> b])
Mul(a, b) == Do("Bin", [op |-> "*", a |-> a, b |-> b])
Div(a, b) == Do("Bin", [op |-> "/", a |-> a, b |-> b])

\* a numpy ufunc ("exp", "sqrt", "log") applied to one evaluated operand
Ufunc(f, a) ==
  IF IsExc(a) THEN a
  ELSE IF IsNone(a) THEN Raise("TypeError")
  ELSE IF a.k = "S" THEN Series(a.idx, [i \in 1..Len(a.idx) |-> Do(f, [x |-> a.v[i]])])
  ELSE Np(Do(f, [x |-> a.v]))

\* a.index: only a Series has one
IndexOf(a) ==
  IF IsExc(a) THEN a
  ELSE IF a.k = "S" THEN [k |-> "index", idx |-> a.idx]
  ELSE Raise("AttributeError")

\* x rounded to an integer, ties to even (np.rint)
FRint(x) ==
  IF x.c # "fin" \/ IsZero(x) \/ x.e >= 0 THEN x
  ELSE LET sh   == -x.e
           q    == BShr(x.m, sh)
           cmp  == BCmp(BSub(x.m, BShl(q, sh)), BShl(<<1>>, sh - 1))
           up   == cmp > 0 \/ (cmp = 0 /\ BIsOdd(q))
       IN Do("FRound", [s |-> x.s, a |-> IF up THEN BAdd(q, <<1>>) ELSE q, e |-> 0, sticky |-> FALSE])

\* numpy's round(x, 8): scale by 10^8, rint, scale back
FRound8Np(x) == Do("/", [x |-> Do("rint", [x |-> Do("*", [x |-> x, y |-> FromInt(100000000)])]), y |-> FromInt(100000000)])

\* float.__round__(x, 8): the exact value of x rounded half-even to 8
\* decimals, then the binary64 nearest to that decimal (|x| < 2^53 / 10^8)
FRound8Py(x) ==
  IF x.c # "fin" \/ IsZero(x) \/ x.e >= 0 THEN x
  ELSE LET sh   == -x.e
           n    == BMul(x.m, FromInt(100000000).m)
           k    == sh - FromInt(100000000).e
           q    == BShr(n, k)
           cmp  == BCmp(BSub(n, BShl(q, k)), BShl(<<1>>, k - 1))
           up   == cmp > 0 \/ (cmp = 0 /\ BIsOdd(q))
           r    == IF up THEN BAdd(q, <<1>>) ELSE q
       IN Do("/", [x |-> Do("FRound", [s |-> x.s, a |-> r, e |-> 0, sticky |-> FALSE]), y |-> FromInt(100000000)])

\* the builtin round(a, 8)
Round8(a) ==
  IF IsExc(a) THEN a
  ELSE IF IsNone(a) THEN Raise("TypeError")
  ELSE IF a.k = "py" THEN Py(Do("FRound8Py", [x |-> a.v]))
  ELSE IF a.k = "np" THEN Np(Do("FRound8Np", [x |-> a.v]))
  ELSE Series(a.idx, [i \in 1..Len(a.idx) |-> Do("FRound8Np", [x |-> a.v[i]])])

(***************************************************************************)
(* np.exp, np.log, np.sin, np.cos and non-integer powers are tabulated, and *)
(* so are the astronomy functions: each table holds the value for every    *)
(* argument the inputs below can produce.                                  *)
(***************************************************************************)
\* ---- tables ----
Pi == [c |-> "fin", s |-> 0, m |-> <<11544, 10376, 2029, 201>>, e |-> -51]
ExpTable ==
  <<
  <<[c |-> "fin", s |-> 0, m |-> <<32143, 29875, 26271, 147>>, e |-> -55],
    [c |-> "fin", s |-> 0, m |-> <<30023, 28636, 28674, 147>>, e |-> -52]>>,
  <<[c |-> "fin", s |-> 0, m |-> <<30528, 28051, 26529, 212>>, e |-> -53],
    [c |-> "fin", s |-> 0, m |-> <<5470, 20616, 31506, 146>>, e |-> -51]>>,
  <<[c |-> "fin", s |-> 0, m |-> <<7585, 12997, 20404, 229>>, e |-> -53],
    [c |-> "fin", s |-> 0, m |-> <<11744, 10507, 30715, 156>>, e |-> -51]>>,
  <<[c |-> "fin", s |-> 0, m |-> <<30781, 27546, 13909, 131>>, e |-> -52],
    [c |-> "fin", s |-> 0, m |-> <<30636, 2841, 22519, 178>>, e |-> -51]>>,
  <<[c |-> "fin", s |-> 0, m |-> <<18328, 5515, 23348, 143>>, e |-> -52],
    [c |-> "fin", s |-> 0, m |-> <<11443, 21031, 22663, 196>>, e |-> -51]>>,
  <<[c |-> "fin", s |-> 0, m |-> <<11839, 22570, 25438, 147>>, e |-> -52],
    [c |-> "fin", s |-> 0, m |-> <<25160, 6251, 1195, 203>>, e |-> -51]>>,
  <<[c |-> "fin", s |-> 0, m |-> <<27508, 16848, 27113, 171>>, e |-> -52],
    [c |-> "fin", s |-> 0, m |-> <<18752, 21710, 214, 245>>, e |-> -51]>>,
  <<[c |-> "fin", s |-> 0, m |-> <<24854, 27998, 18098, 187>>, e |-> -52],
    [c |-> "fin", s |-> 0, m |-> <<11014, 12371, 16920, 138>>, e |-> -50]>>,
  <<[c |-> "fin", s |-> 0, m |-> <<29207, 17826, 22611, 210>>, e |-> -52],
    [c |-> "fin", s |-> 0, m |-> <<7590, 3965, 31485, 165>>, e |-> -50]>>
  >>
LogTable ==
  <<
  <<[c |-> "fin", s |-> 0, m |-> <<7194, 799, 25575, 216>>, e |-> -48],
    [c |-> "fin", s |-> 0, m |-> <<32608, 79, 5387, 211>>, e |-> -51]>>,
  <<[c |-> "fin", s |-> 0, m |-> <<26552, 8613, 2575, 130>>, e |-> -45],
    [c |-> "fin", s |-> 0, m |-> <<23104, 17145, 25573, 155>>, e |-> -50]>>,
  <<[c |-> "fin", s |-> 0, m |-> <<16784, 12787, 15984, 135>>, e |-> -44],
    [c |-> "fin", s |-> 0, m |-> <<10811, 31709, 8680, 179>>, e |-> -50]>>,
  <<[c |-> "fin", s |-> 0, m |-> <<8615, 2575, 19603, 162>>, e |-> -42],
    [c |-> "fin", s |-> 0, m |-> <<1227, 32431, 15176, 229>>, e |-> -50]>>
  >>
SinTable ==
  <<
  <<[c |-> "fin", s |-> 1, m |-> <<1043, 12688, 10359, 205>>, e |-> -54],
    [c |-> "fin", s |-> 1, m |-> <<30261, 7001, 28098, 199>>, e |-> -54]>>,
  <<[c |-> "fin", s |-> 1, m |-> <<4052, 29918, 18894, 204>>, e |-> -54],
    [c |-> "fin", s |-> 1, m |-> <<17901, 10740, 5781, 199>>, e |-> -54]>>,
  <<[c |-> "fin", s |-> 1, m |-> <<16623, 894, 25444, 203>>, e |-> -54],
    [c |-> "fin", s |-> 1, m |-> <<272, 23683, 14387, 198>>, e |-> -54]>>,
  <<[c |-> "fin", s |-> 0, m |-> <<19661, 6553, 13107, 230>>, e |-> -53],
    [c |-> "fin", s |-> 0, m |-> <<10305, 12475, 17422, 200>>, e |-> -53]>>,
  <<[c |-> "fin", s |-> 0, m |-> <<10661, 25010, 29927, 128>>, e |-> -52],
    [c |-> "fin", s |-> 0, m |-> <<3912, 11425, 13042, 216>>, e |-> -53]>>,
  <<[c |-> "fin", s |-> 0, m |-> <<22445, 15945, 7799, 129>>, e |-> -52],
    [c |-> "fin", s |-> 0, m |-> <<31367, 26174, 24388, 216>>, e |-> -53]>>,
  <<[c |-> "fin", s |-> 0, m |-> <<21172, 24219, 19277, 129>>, e |-> -52],
    [c |-> "fin", s |-> 0, m |-> <<14866, 7433, 3810, 217>>, e |-> -53]>>
  >>
CosTable ==
  <<
  <<[c |-> "fin", s |-> 1, m |-> <<1043, 12688, 10359, 205>>, e |-> -54],
    [c |-> "fin", s |-> 0, m |-> <<10614, 19124, 22642, 235>>, e |-> -53]>>,
  <<[c |-> "fin", s |-> 1, m |-> <<4052, 29918, 18894, 204>>, e |-> -54],
    [c |-> "fin", s |-> 0, m |-> <<14163, 1922, 27364, 235>>, e |-> -53]>>,
  <<[c |-> "fin", s |-> 1, m |-> <<16623, 894, 25444, 203>>, e |-> -54],
    [c |-> "fin", s |-> 0, m |-> <<18431, 13406, 32454, 235>>, e |-> -53]>>,
  <<[c |-> "fin", s |-> 0, m |-> <<19661, 6553, 13107, 230>>, e |-> -53],
    [c |-> "fin", s |-> 0, m |-> <<25116, 11557, 4330, 159>>, e |-> -53]>>
  >>
PowTable ==
  <<
  <<<<[c |-> "fin", s |-> 0, m |-> <<16933, 15075, 14158, 255>>, e |-> -53],
     [c |-> "fin", s |-> 0, m |-> <<3408, 23855, 3145, 168>>, e |-> -50]>>,
    [c |-> "fin", s |-> 0, m |-> <<28686, 4635, 1008, 253>>, e |-> -53]>>,
  <<<<[c |-> "fin", s |-> 0, m |-> <<16933, 15075, 14158, 255>>, e |-> -53],
     [c |-> "fin", s |-> 0, m |-> <<22282, 24903, 10485, 168>>, e |-> -50]>>,
    [c |-> "fin", s |-> 0, m |-> <<17377, 7981, 879, 253>>, e |-> -53]>>,
  <<<<[c |-> "fin", s |-> 0, m |-> <<0, 0, 0, 160>>, e |-> -49],
     [c |-> "fin", s |-> 1, m |-> <<0, 0, 0, 144>>, e |-> -49]>>,
    [c |-> "fin", s |-> 0, m |-> <<22165, 20557, 14383, 137>>, e |-> -82]>>,
  <<<<[c |-> "fin", s |-> 0, m |-> <<0, 0, 0, 160>>, e |-> -49],
     [c |-> "fin", s |-> 1, m |-> <<0, 0, 0, 160>>, e |-> -50]>>,
    [c |-> "fin", s |-> 0, m |-> <<26865, 4550, 25302, 167>>, e |-> -69]>>
  >>
DistanceTable ==
  <<
  <<[c |-> "fin", s |-> 0, m |-> <<0, 0, 0, 128>>, e |-> -52],
    [c |-> "fin", s |-> 0, m |-> <<15156, 17195, 7319, 132>>, e |-> -52]>>,
  <<[c |-> "fin", s |-> 0, m |-> <<0, 0, 0, 128>>, e |-> -51],
    [c |-> "fin", s |-> 0, m |-> <<8015, 299, 7258, 132>>, e |-> -52]>>,
  <<[c |-> "fin", s |-> 0, m |-> <<0, 0, 0, 192>>, e |-> -51],
    [c |-> "fin", s |-> 0, m |-> <<7562, 16493, 7155, 132>>, e |-> -52]>>
  >>
DeclinationTable ==
  <<
  <<[c |-> "fin", s |-> 0, m |-> <<0, 0, 0, 128>>, e |-> -52],
    [c |-> "fin", s |-> 1, m |-> <<1043, 12688, 10359, 205>>, e |-> -54]>>,
  <<[c |-> "fin", s |-> 0, m |-> <<0, 0, 0, 128>>, e |-> -51],
    [c |-> "fin", s |-> 1, m |-> <<4052, 29918, 18894, 204>>, e |-> -54]>>,
  <<[c |-> "fin", s |-> 0, m |-> <<0, 0, 0, 192>>, e |-> -51],
    [c |-> "fin", s |-> 1, m |-> <<16623, 894, 25444, 203>>, e |-> -54]>>
  >>
SunsetTable ==
  <<
  <<<<[c |-> "fin", s |-> 0, m |-> <<19661, 6553, 13107, 230>>, e |-> -53],
     [c |-> "fin", s |-> 1, m |-> <<1043, 12688, 10359, 205>>, e |-> -54]>>,
    [c |-> "fin", s |-> 0, m |-> <<10661, 25010, 29927, 128>>, e |-> -52]>>,
  <<<<[c |-> "fin", s |-> 0, m |-> <<19661, 6553, 13107, 230>>, e |-> -53],
     [c |-> "fin", s |-> 1, m |-> <<4052, 29918, 18894, 204>>, e |-> -54]>>,
    [c |-> "fin", s |-> 0, m |-> <<22445, 15945, 7799, 129>>, e |-> -52]>>,
  <<<<[c |-> "fin", s |-> 0, m |-> <<19661, 6553, 13107, 230>>, e |-> -53],
     [c |-> "fin", s |-> 1, m |-> <<16623, 894, 25444, 203>>, e |-> -54]>>,
    [c |-> "fin", s |-> 0, m |-> <<21172, 24219, 19277, 129>>, e |-> -52]>>
  >>
DaylightTable ==
  <<
  <<<<[c |-> "fin", s |-> 0, m |-> <<0, 0, 0, 128>>, e |-> -52],
     [c |-> "fin", s |-> 0, m |-> <<19661, 6553, 13107, 230>>, e |-> -53]>>,
    [c |-> "fin", s |-> 0, m |-> <<30140, 12800, 6760, 246>>, e |-> -50]>>,
  <<<<[c |-> "fin", s |-> 0, m |-> <<0, 0, 0, 128>>, e |-> -51],
     [c |-> "fin", s |-> 0, m |-> <<19661, 6553, 13107, 230>>, e |-> -53]>>,
    [c |-> "fin", s |-> 0, m |-> <<20511, 25082, 27080, 246>>, e |-> -50]>>,
  <<<<[c |-> "fin", s |-> 0, m |-> <<0, 0, 0, 192>>, e |-> -51],
     [c |-> "fin", s |-> 0, m |-> <<19661, 6553, 13107, 230>>, e |-> -53]>>,
    [c |-> "fin", s |-> 0, m |-> <<31717, 20084, 16234, 247>>, e |-> -50]>>
  >>
ExtraterrestrialTable ==
  <<
  <<<<[c |-> "fin", s |-> 0, m |-> <<0, 0, 0, 128>>, e |-> -52],
     [c |-> "fin", s |-> 0, m |-> <<19661, 6553, 13107, 230>>, e |-> -53]>>,
    [c |-> "fin", s |-> 0, m |-> <<9133, 5282, 14354, 218>>, e |-> -50]>>,
  <<<<[c |-> "fin", s |-> 0, m |-> <<0, 0, 0, 128>>, e |-> -51],
     [c |-> "fin", s |-> 0, m |-> <<19661, 6553, 13107, 230>>, e |-> -53]>>,
    [c |-> "fin", s |-> 0, m |-> <<12223, 14605, 3543, 220>>, e |-> -50]>>,
  <<<<[c |-> "fin", s |-> 0, m |-> <<0, 0, 0, 192>>, e |-> -51],
     [c |-> "fin", s |-> 0, m |-> <<19661, 6553, 13107, 230>>, e |-> -53]>>,
    [c |-> "fin", s |-> 0, m |-> <<13184, 10968, 30050, 221>>, e |-> -50]>>
  >>
\* ---- end of tables ----

Lookup(tab, x) == tab[CHOOSE i \in 1..Len(tab) : tab[i][1] = x][2]

FExp(x) ==
  IF x.c = "nan" THEN NaN
  ELSE IF x.c = "inf" THEN (IF x.s = 0 THEN x ELSE Zero)
  ELSE Lookup(ExpTable, x)

FLog(x) ==
  IF x.c = "nan" THEN NaN
  ELSE IF IsZero(x) THEN Inf(1)
  ELSE IF x.s = 1 THEN NaN
  ELSE IF x.c = "inf" THEN x
  ELSE Lookup(LogTable, x)

FSin(x) == IF x.c # "fin" THEN NaN ELSE Lookup(SinTable, x)
FCos(x) == IF x.c # "fin" THEN NaN ELSE Lookup(CosTable, x)

\* x ** y: an integer power 2, 3 or 4 is the exact power rounded once,
\* any other power is tabulated
FPow(x, y) ==
  IF y = FromInt(2) THEN FPowInt(x, 2)
  ELSE IF y = FromInt(3) THEN FPowInt(x, 3)
  ELSE IF y = FromInt(4) THEN FPowInt(x, 4)
  ELSE IF x.c = "nan" THEN NaN
  ELSE Lookup(PowTable, <<x, y>>)

Pow(a, b) == Do("Bin", [op |-> "**", a |-> a, b |-> b])

(***************************************************************************)
(* Statements.  A function body is a list of statements S(1..n), the last  *)
(* one its return; each yields a value, what it printed and the helpers it *)
(* called.  The body runs up to its first raised exception.                *)
(***************************************************************************)
Stmt(val) == [val |-> val, out |-> <<>>, calls |-> <<>>]
Printed(line) == [val |-> None, out |-> <<line>>, calls |-> <<>>]
Call(name, res) == [val |-> res.val, out |-> res.out, calls |-> <<name>> \o res.calls]

Run(S(_), n) ==
  LET last == CHOOSE i \in 1..n :
                /\ i = n \/ IsExc(S(i).val)
                /\ \A j \in 1..(i - 1) : ~IsExc(S(j).val)
      outs[i \in 0..last] == IF i = 0 THEN <<>> ELSE outs[i - 1] \o S(i).out
      made[i \in 0..last] == IF i = 0 THEN <<>> ELSE made[i - 1] \o S(i).calls
  IN [val |-> S(last).val, out |-> outs[last], calls |-> made[last]]

(***************************************************************************)
(* Humidity                                                                *)
(***************************************************************************)

e0_calc(temperature) ==
  Mul(Lit(6108, 4), Ufunc("exp", Div(Mul(Lit(1727, 2), temperature), Add(temperature, Lit(2373, 1)))))

es_calc(tmax, tmin) ==
  LET eamax == Do("e0_calc", [temperature |-> tmax])
      eamin == Do("e0_calc", [temperature |-> tmin])
      S(i) == CASE i = 1 -> Stmt(eamax)
                [] i = 2 -> Stmt(eamin)
                [] i = 3 -> Stmt(Div(Add(eamax, eamin), PyInt(2)))
  IN Run(S, 3).val

\* ea_calc with the mean-humidity branch tested first
ea_calc_rh_first(tmax, tmin, rhmax, rhmin, rh) ==
  LET eamax == Do("e0_calc", [temperature |-> tmax])
      eamin == Do("e0_calc", [temperature |-> tmin])
      S(i) == CASE i = 1 -> Stmt(eamax)
                [] i = 2 -> Stmt(eamin)
                [] i = 3 ->
                     IF ~IsNone(rh)
                       THEN Stmt(Mul(Div(rh, PyInt(200)), Add(eamax, eamin)))
                     ELSE IF ~IsNone(rhmax) /\ ~IsNone(rhmin)
                       THEN Stmt(Add(Div(Mul(eamin, rhmax), PyInt(200)),
                                     Div(Mul(eamax, rhmin), PyInt(200))))
                     ELSE IF ~IsNone(rhmax) /\ IsNone(rhmin)
                       THEN Stmt(Div(Mul(eamin, rhmax), PyInt(100)))
                     ELSE IF IsNone(rhmax) /\ ~IsNone(rhmin)
                       THEN Stmt(eamin)
                     ELSE Printed("error")
  IN Run(S, 3)

\* ea_calc with the mean-humidity branch dividing by 100 instead of 200
ea_calc_rh_over_100(tmax, tmin, rhmax, rhmin, rh) ==
  LET eamax == Do("e0_calc", [temperature |-> tmax])
      eamin == Do("e0_calc", [temperature |-> tmin])
      S(i) == CASE i = 1 -> Stmt(eamax)
                [] i = 2 -> Stmt(eamin)
                [] i = 3 ->
                     IF ~IsNone(rhmax) /\ ~IsNone(rhmin)
                       THEN Stmt(Add(Div(Mul(eamin, rhmax), PyInt(200)),
                                     Div(Mul(eamax, rhmin), PyInt(200))))
                     ELSE IF ~IsNone(rhmax) /\ IsNone(rhmin)
                       THEN Stmt(Div(Mul(eamin, rhmax), PyInt(100)))
                     ELSE IF IsNone(rhmax) /\ ~IsNone(rhmin)
                       THEN Stmt(eamin)
                     ELSE IF ~IsNone(rh)
                       THEN Stmt(Mul(Div(rh, PyInt(100)), Add(eamax, eamin)))
                     ELSE Printed("error")
  IN Run(S, 3)

ea_calc(tmax, tmin, rhmax, rhmin, rh) ==
  LET eamax == Do("e0_calc", [temperature |-> tmax])
      eamin == Do("e0_calc", [temperature |-> tmin])
      S(i) == CASE i = 1 -> Stmt(eamax)
                [] i = 2 -> Stmt(eamin)
                [] i = 3 ->
                     IF ~IsNone(rhmax) /\ ~IsNone(rhmin)
                       THEN Stmt(Add(Div(Mul(eamin, rhmax), PyInt(200)),
                                     Div(Mul(eamax, rhmin), PyInt(200))))
                     ELSE IF ~IsNone(rhmax) /\ IsNone(rhmin)
                       THEN Stmt(Div(Mul(eamin, rhmax), PyInt(100)))
                     ELSE IF IsNone(rhmax) /\ ~IsNone(rhmin)
                       THEN Stmt(eamin)
                     ELSE IF ~IsNone(rh)
                       THEN Stmt(Mul(Div(rh, PyInt(200)), Add(eamax, eamin)))
                     ELSE Printed("error")
  IN Run(S, 3)

(***************************************************************************)
(* Astronomy.  pyet.utils is imported by penman.py; these definitions      *)
(* follow the description of its functions.  What they do with a missing   *)
(* index or latitude is left open: env is that outcome, chosen by the      *)
(* caller's environment.                                                   *)
(***************************************************************************)
day_of_year(meteoindex) ==
  Series(meteoindex.idx, [i \in 1..Len(meteoindex.idx) |-> FromInt(meteoindex.idx[i])])

\* a function of the day and the latitude, tabulated
OfDayAndLat(tab, meteoindex, lat, env) ==
  IF IsExc(meteoindex) THEN meteoindex
  ELSE IF IsExc(lat) THEN lat
  ELSE IF meteoindex.k # "index" \/ lat.k \notin {"py", "np"} THEN env
  ELSE LET j == day_of_year(meteoindex)
       IN Series(j.idx, [i \in 1..Len(j.idx) |-> Lookup(tab, <<j.v[i], lat.v>>)])

extraterrestrial_r(meteoindex, lat, env) == OfDayAndLat(ExtraterrestrialTable, meteoindex, lat, env)
daylight_hours(meteoindex, lat, env) == OfDayAndLat(DaylightTable, meteoindex, lat, env)

\* anything but a Series of days passes through
relative_distance(j) ==
  IF j.k # "S" THEN j
  ELSE Series(j.idx, [i \in 1..Len(j.idx) |-> Lookup(DistanceTable, j.v[i])])
solar_declination(j) ==
  IF j.k # "S" THEN j
  ELSE Series(j.idx, [i \in 1..Len(j.idx) |-> Lookup(DeclinationTable, j.v[i])])
sunset_angle(lat, sol_dec) ==
  IF sol_dec.k # "S" THEN sol_dec
  ELSE Series(sol_dec.idx,
              [i \in 1..Len(sol_dec.idx) |-> Lookup(SunsetTable, <<lat.v, sol_dec.v[i]>>)])

(***************************************************************************)
(* Pressure, psychrometric constant, slope, resistances                    *)
(***************************************************************************)

\* method is 0 or 1 (any method other than 0 takes the else branch)
vpc_calc(temperature, tmin, tmax, method) ==
  IF method = 0
    THEN LET ea == Do("e0_calc", [temperature |-> temperature])
         IN Div(Mul(PyInt(4098), ea), Pow(Add(temperature, Lit(2373, 1)), PyInt(2)))
    ELSE LET eamax == Do("e0_calc", [temperature |-> tmax])
             eamin == Do("e0_calc", [temperature |-> tmin])
             S(i) == CASE i = 1 -> Stmt(eamax)
                       [] i = 2 -> Stmt(eamin)
                       [] i = 3 -> Stmt(Do("Round8", [a |->
                            Add(Div(Mul(PyInt(2049), eamax), Pow(Add(tmax, Lit(2373, 1)), PyInt(2))),
                                Div(Mul(PyInt(2049), eamin), Pow(Add(tmin, Lit(2373, 1)), PyInt(2))))]))
         IN Run(S, 3).val

rso_calc(ra, elevation) ==
  Mul(Add(Lit(75, 2), Mul(Mul(PyInt(2), Pow(PyInt(10), PyInt(-5))), elevation)), ra)

psy_calc(pressure, lambd) ==
  IF IsNone(lambd) THEN Mul(Lit(665, 6), pressure)
  ELSE Div(Mul(Lit(16286, 7), pressure), lambd)

press_calc(elevation, power) ==
  Mul(Lit(1013, 1), Pow(Div(Sub(PyInt(293), Mul(Lit(65, 4), elevation)), PyInt(293)), power))

\* a method other than 1 or 2 falls off the end of the function
rc_calc(lai, method) ==
  IF method = 1 THEN PyInt(70)
  ELSE IF method = 2 THEN Div(PyInt(200), lai)
  ELSE None

lambda_calc(temperature) == Sub(Lit(2501, 3), Mul(Lit(2361, 6), temperature))

calc_rhoa(pressure, ta) ==
  Div(pressure, Mul(Mul(Lit(101, 2), Add(ta, PyInt(273))), PyInt(287)))

calc_ra(wind, croph, method) ==
  IF method = 1 THEN Div(PyInt(208), wind)
  ELSE IF method = 2
    THEN Div(Div(Mul(Ufunc("log", Div(Sub(PyInt(2), Mul(Lit(667, 3), croph)), Mul(Lit(123, 3), croph))),
                     Ufunc("log", Div(Sub(PyInt(2), Mul(Lit(667, 3), croph)), Mul(Lit(123, 4), croph)))),
                 Pow(Lit(41, 2), PyInt(2))),
             wind)
  ELSE None

(***************************************************************************)
(* Radiation                                                               *)
(***************************************************************************)

in_solar_r(meteoindex, lat, a_s, b_s, n, nn, env) ==
  LET ra == Do("extraterrestrial_r", [meteoindex |-> meteoindex, lat |-> lat, env |-> env])
      n1 == IF IsNone(n)
              THEN Do("daylight_hours", [meteoindex |-> meteoindex, lat |-> lat, env |-> env])
              ELSE n
      S(i) == CASE i = 1 -> Stmt(ra)
                [] i = 2 -> Stmt(n1)
                [] i = 3 -> Stmt(Mul(Add(a_s, Div(Mul(b_s, n1), nn)), ra))
  IN Run(S, 3).val

shortwave_r(solar, meteoindex, lat, alpha, n, nn, env) ==
  IF ~IsNone(solar)
    THEN Mul(Sub(PyInt(1), alpha), solar)
    ELSE Mul(Sub(PyInt(1), alpha),
             Do("in_solar_r", [meteoindex |-> meteoindex, lat |-> lat, a_s |-> Lit(25, 2),
                               b_s |-> Lit(5, 1), n |-> n, nn |-> nn, env |-> env]))

longwave_r(solar, tmax, tmin, rhmax, rhmin, rh, rso, elevation, lat, ea, env) ==
  LET steff == Mul(Lit(4903, 3), Pow(PyInt(10), PyInt(-9)))
      ra == Do("extraterrestrial_r", [meteoindex |-> IndexOf(solar), lat |-> lat, env |-> env])
      rso1 == IF IsNone(rso) THEN Do("rso_calc", [ra |-> ra, elevation |-> elevation]) ELSE rso
      solar_rat == Div(solar, rso1)
      ea1 == IF IsNone(ea)
               THEN Call("ea_calc", Do("ea_calc", [tmax |-> tmax, tmin |-> tmin, rhmax |-> rhmax,
                                                    rhmin |-> rhmin, rh |-> rh]))
               ELSE Stmt(ea)
      tmp1 == Div(Mul(steff, Add(Pow(Add(tmax, Lit(2732, 1)), PyInt(4)), Pow(Add(tmin, Lit(2732, 1)), PyInt(4)))), PyInt(2))
      tmp2 == Sub(Lit(34, 2), Mul(Lit(14, 2), Ufunc("sqrt", ea1.val)))
      tmp3 == Sub(Mul(Lit(135, 2), solar_rat), Lit(35, 2))
      S(i) == CASE i = 1 -> Stmt(steff)
                [] i = 2 -> IF ~IsNone(rso) THEN Stmt(None)
                            ELSE IF IsExc(IndexOf(solar)) THEN Stmt(IndexOf(solar))
                            ELSE Call("extraterrestrial_r", Stmt(ra))
                [] i = 3 -> IF IsNone(rso) THEN Call("rso_calc", Stmt(rso1)) ELSE Stmt(None)
                [] i = 4 -> Stmt(solar_rat)
                [] i = 5 -> ea1
                [] i = 6 -> Stmt(tmp1)
                [] i = 7 -> Stmt(tmp2)
                [] i = 8 -> Stmt(tmp3)
                [] i = 9 -> Stmt(Mul(Mul(tmp1, tmp2), tmp3))
  IN Run(S, 9)

ed_calc(tmax, tmin, rh) ==
  LET eamax == Do("e0_calc", [temperature |-> tmax])
      eamin == Do("e0_calc", [temperature |-> tmin])
      S(i) == CASE i = 1 -> Stmt(eamax)
                [] i = 2 -> Stmt(eamin)
                [] i = 3 -> Stmt(Div(rh, Add(Div(PyInt(50), eamin), Div(PyInt(50), eamax))))
  IN Run(S, 3).val

cloudiness_factor(rs, rso, ac, bc) == Add(Div(Mul(ac, rs), rso), bc)

ra_calc(meteoindex, lat, env) ==
  LET j == IF IsExc(meteoindex) THEN meteoindex
           ELSE IF meteoindex.k = "index" THEN day_of_year(meteoindex) ELSE env
      dr == relative_distance(j)
      sol_dec == solar_declination(j)
      omega == sunset_angle(lat, sol_dec)
      gsc == Mul(Mul(Lit(82, 3), PyInt(24)), PyInt(60))
      S(i) == CASE i = 1 -> Stmt(j)
                [] i = 2 -> Stmt(dr)
                [] i = 3 -> Stmt(sol_dec)
                [] i = 4 -> Stmt(omega)
                [] i = 5 -> Stmt(gsc)
                [] i = 6 -> Stmt(Mul(Mul(Div(gsc, Py(Pi)), dr),
                                     Add(Mul(Mul(omega, Ufunc("sin", sol_dec)), Ufunc("sin", lat)),
                                         Mul(Mul(Ufunc("cos", sol_dec), Ufunc("cos", lat)),
                                             Ufunc("sin", omega)))))
  IN Run(S, 6).val

rs_calc(meteoindex, lat, a_s, b_s, env) ==
  LET ra == Do("ra_calc", [meteoindex |-> meteoindex, lat |-> lat, env |-> env])
      S(i) == CASE i = 1 -> Stmt(ra)
                [] i = 2 -> Stmt(Mul(Add(a_s, Mul(b_s, PyInt(1))), ra))
  IN Run(S, 2).val

calc_rns(solar, meteoindex, lat, alpha, env) ==
  IF ~IsNone(solar)
    THEN Mul(Sub(PyInt(1), alpha), solar)
    ELSE Mul(Sub(PyInt(1), alpha),
             Do("rs_calc", [meteoindex |-> meteoindex, lat |-> lat, a_s |-> Lit(25, 2), b_s |-> Lit(5, 1),
                            env |-> env]))

calc_rnl(tmax, tmin, ea, cloudf, longa, longb) ==
  LET sigma == Mul(Lit(245, 11), Add(Pow(Add(tmax, Lit(27316, 2)), PyInt(4)), Pow(Add(tmin, Lit(27316, 2)), PyInt(4))))
      emiss == Add(longa, Mul(longb, Do("Round8", [a |-> Ufunc("sqrt", ea)])))
      S(i) == CASE i = 1 -> Stmt(sigma)
                [] i = 2 -> Stmt(emiss)
                [] i = 3 -> Stmt(Mul(Mul(sigma, cloudf), emiss))
  IN Run(S, 3).val

(***************************************************************************)
(* The evapotranspiration formulas.  kw holds the keyword arguments of the *)
(* call, defaults filled in.                                               *)
(***************************************************************************)
HumidityArgs(kw) ==
  [tmax |-> kw.tmax, tmin |-> kw.tmin, rhmax |-> kw.rhmax, rhmin |-> kw.rhmin, rh |-> kw.rh]

\* shortwave_r(solar=solar, n=n, nn=nn)
ShortwaveArgs(kw) ==
  [solar |-> kw.solar, meteoindex |-> None, lat |-> None, alpha |-> Lit(23, 2),
   n |-> kw.n, nn |-> kw.nn, env |-> kw.env]

\* longwave_r(solar=solar, ..., lat=latitude, ea=ea)
LongwaveArgs(kw, ea) ==
  [solar |-> kw.solar, tmax |-> kw.tmax, tmin |-> kw.tmin, rhmax |-> kw.rhmax,
   rhmin |-> kw.rhmin, rh |-> kw.rh, rso |-> kw.rso, elevation |-> kw.elevation,
   lat |-> kw.latitude, ea |-> ea, env |-> kw.env]

\* penman with the net radiation taken as the sum of the two components
penman_net_sum(kw) ==
  LET ta == Div(Add(kw.tmax, kw.tmin), PyInt(2))
      pressure == Do("press_calc", [elevation |-> kw.elevation, power |-> Lit(526, 2)])
      gamma == Do("psy_calc", [pressure |-> pressure, lambd |-> None])
      dlt == Do("vpc_calc", [temperature |-> ta, tmin |-> None, tmax |-> None, method |-> 0])
      lambd == Do("lambda_calc", [temperature |-> ta])
      ea == Do("ea_calc", HumidityArgs(kw))
      es == Do("es_calc", [tmax |-> kw.tmax, tmin |-> kw.tmin])
      rns == Do("shortwave_r", ShortwaveArgs(kw))
      rnl == Do("longwave_r", LongwaveArgs(kw, ea.val))
      net == IF IsNone(kw.net) THEN Add(rns, rnl.val) ELSE kw.net
      w == Mul(kw.a, Add(PyInt(1), Mul(kw.b, kw.wind)))
      den == Mul(lambd, Add(dlt, gamma))
      num1 == Div(Mul(dlt, Sub(net, kw.sflux)), den)
      num2 == Div(Mul(Mul(gamma, Sub(es, ea.val)), w), den)
      S(i) == CASE i = 1 -> Stmt(ta)
                [] i = 2 -> Call("press_calc", Stmt(pressure))
                [] i = 3 -> Call("psy_calc", Stmt(gamma))
                [] i = 4 -> Call("vpc_calc", Stmt(dlt))
                [] i = 5 -> Call("lambda_calc", Stmt(lambd))
                [] i = 6 -> Call("ea_calc", ea)
                [] i = 7 -> Call("es_calc", Stmt(es))
                [] i = 8 -> IF IsNone(kw.net) THEN Call("shortwave_r", Stmt(rns)) ELSE Stmt(None)
                [] i = 9 -> IF IsNone(kw.net) THEN Call("longwave_r", rnl) ELSE Stmt(None)
                [] i = 10 -> Stmt(net)
                [] i = 11 -> Stmt(w)
                [] i = 12 -> Stmt(den)
                [] i = 13 -> Stmt(num1)
                [] i = 14 -> Stmt(num2)
                [] i = 15 -> Stmt(Add(num1, num2))
  IN Run(S, 15)

penman(kw) ==
  LET ta == Div(Add(kw.tmax, kw.tmin), PyInt(2))
      pressure == Do("press_calc", [elevation |-> kw.elevation, power |-> Lit(526, 2)])
      gamma == Do("psy_calc", [pressure |-> pressure, lambd |-> None])
      dlt == Do("vpc_calc", [temperature |-> ta, tmin |-> None, tmax |-> None, method |-> 0])
      lambd == Do("lambda_calc", [temperature |-> ta])
      ea == Do("ea_calc", HumidityArgs(kw))
      es == Do("es_calc", [tmax |-> kw.tmax, tmin |-> kw.tmin])
      rns == Do("shortwave_r", ShortwaveArgs(kw))
      rnl == Do("longwave_r", LongwaveArgs(kw, ea.val))
      net == IF IsNone(kw.net) THEN Sub(rns, rnl.val) ELSE kw.net
      w == Mul(kw.a, Add(PyInt(1), Mul(kw.b, kw.wind)))
      den == Mul(lambd, Add(dlt, gamma))
      num1 == Div(Mul(dlt, Sub(net, kw.sflux)), den)
      num2 == Div(Mul(Mul(gamma, Sub(es, ea.val)), w), den)
      S(i) == CASE i = 1 -> Stmt(ta)
                [] i = 2 -> Call("press_calc", Stmt(pressure))
                [] i = 3 -> Call("psy_calc", Stmt(gamma))
                [] i = 4 -> Call("vpc_calc", Stmt(dlt))
                [] i = 5 -> Call("lambda_calc", Stmt(lambd))
                [] i = 6 -> Call("ea_calc", ea)
                [] i = 7 -> Call("es_calc", Stmt(es))
                [] i = 8 -> IF IsNone(kw.net) THEN Call("shortwave_r", Stmt(rns)) ELSE Stmt(None)
                [] i = 9 -> IF IsNone(kw.net) THEN Call("longwave_r", rnl) ELSE Stmt(None)
                [] i = 10 -> Stmt(net)
                [] i = 11 -> Stmt(w)
                [] i = 12 -> Stmt(den)
                [] i = 13 -> Stmt(num1)
                [] i = 14 -> Stmt(num2)
                [] i = 15 -> Stmt(Add(num1, num2))
  IN Run(S, 15)

pm_fao56(kw) ==
  LET ta == Div(Add(kw.tmax, kw.tmin), PyInt(2))
      pressure == Do("press_calc", [elevation |-> kw.elevation, power |-> Lit(526, 2)])
      gamma == Do("psy_calc", [pressure |-> pressure, lambd |-> None])
      dlt == Do("vpc_calc", [temperature |-> ta, tmin |-> None, tmax |-> None, method |-> 0])
      gamma1 == Mul(gamma, Add(PyInt(1), Mul(Lit(34, 2), kw.wind)))
      ea == Do("ea_calc", HumidityArgs(kw))
      es == Do("es_calc", [tmax |-> kw.tmax, tmin |-> kw.tmin])
      rns == Do("shortwave_r", ShortwaveArgs(kw))
      rnl == Do("longwave_r", LongwaveArgs(kw, ea.val))
      net == IF IsNone(kw.net) THEN Sub(rns, rnl.val) ELSE kw.net
      den == Add(dlt, gamma1)
      num1 == Mul(Mul(Lit(408, 3), dlt), Sub(net, kw.sflux))
      num2 == Div(Mul(Mul(Mul(gamma, Sub(es, ea.val)), PyInt(900)), kw.wind), Add(ta, PyInt(273)))
      S(i) == CASE i = 1 -> Stmt(ta)
                [] i = 2 -> Call("press_calc", Stmt(pressure))
                [] i = 3 -> Call("psy_calc", Stmt(gamma))
                [] i = 4 -> Call("vpc_calc", Stmt(dlt))
                [] i = 5 -> Stmt(gamma1)
                [] i = 6 -> Call("ea_calc", ea)
                [] i = 7 -> Call("es_calc", Stmt(es))
                [] i = 8 -> IF IsNone(kw.net) THEN Call("shortwave_r", Stmt(rns)) ELSE Stmt(None)
                [] i = 9 -> IF IsNone(kw.net) THEN Call("longwave_r", rnl) ELSE Stmt(None)
                [] i = 10 -> Stmt(net)
                [] i = 11 -> Stmt(den)
                [] i = 12 -> Stmt(num1)
                [] i = 13 -> Stmt(num2)
                [] i = 14 -> Stmt(Div(Add(num1, num2), den))
  IN Run(S, 14)

pm_1965(kw) ==
  LET ta == Div(Add(kw.tmax, kw.tmin), PyInt(2))
      lambd == Do("lambda_calc", [temperature |-> ta])
      pressure == Do("press_calc", [elevation |-> kw.elevation, power |-> Lit(526, 2)])
      gamma == Do("psy_calc", [pressure |-> pressure, lambd |-> None])
      dlt == Do("vpc_calc", [temperature |-> ta, tmin |-> None, tmax |-> None, method |-> 0])
      cp == Lit(101, 2)
      rho_a == Do("calc_rhoa", [pressure |-> pressure, ta |-> ta])
      r_a == Do("calc_ra", [wind |-> kw.wind, croph |-> None, method |-> kw.ra])
      r_c == Do("rc_calc", [lai |-> kw.lai, method |-> kw.rc])
      gamma1 == Mul(gamma, Add(PyInt(1), Div(r_c, r_a)))
      ea == Do("ea_calc", HumidityArgs(kw))
      es == Do("es_calc", [tmax |-> kw.tmax, tmin |-> kw.tmin])
      rns == Do("shortwave_r", ShortwaveArgs(kw))
      rnl == Do("longwave_r", LongwaveArgs(kw, ea.val))
      net == IF IsNone(kw.net) THEN Sub(rns, rnl.val) ELSE kw.net
      den == Mul(lambd, Add(dlt, gamma1))
      num1 == Div(Mul(dlt, Sub(net, kw.sflux)), den)
      num2 == Div(Div(Mul(Mul(Mul(rho_a, cp), PyInt(86400)), Sub(es, ea.val)), r_a), den)
      S(i) == CASE i = 1 -> Stmt(ta)
                [] i = 2 -> Call("lambda_calc", Stmt(lambd))
                [] i = 3 -> Call("press_calc", Stmt(pressure))
                [] i = 4 -> Call("psy_calc", Stmt(gamma))
                [] i = 5 -> Call("vpc_calc", Stmt(dlt))
                [] i = 6 -> Stmt(cp)
                [] i = 7 -> Call("calc_rhoa", Stmt(rho_a))
                [] i = 8 -> Call("calc_ra", Stmt(r_a))
                [] i = 9 -> Call("rc_calc", Stmt(r_c))
                [] i = 10 -> Stmt(gamma1)
                [] i = 11 -> Call("ea_calc", ea)
                [] i = 12 -> Call("es_calc", Stmt(es))
                [] i = 13 -> IF IsNone(kw.net) THEN Call("shortwave_r", Stmt(rns)) ELSE Stmt(None)
                [] i = 14 -> IF IsNone(kw.net) THEN Call("longwave_r", rnl) ELSE Stmt(None)
                [] i = 15 -> Stmt(net)
                [] i = 16 -> Stmt(den)
                [] i = 17 -> Stmt(num1)
                [] i = 18 -> Stmt(num2)
                [] i = 19 -> Stmt(Add(num1, num2))
  IN Run(S, 19)

\* priestley_taylor with an aerodynamic term of wind and vapour pressure added
priestley_taylor_aerodynamic(kw) ==
  LET ta == Div(Add(kw.tmax, kw.tmin), PyInt(2))
      lambd == Do("lambda_calc", [temperature |-> ta])
      pressure == Do("press_calc", [elevation |-> kw.elevation, power |-> Lit(526, 2)])
      gamma == Do("psy_calc", [pressure |-> pressure, lambd |-> None])
      dlt == Do("vpc_calc", [temperature |-> ta, tmin |-> None, tmax |-> None, method |-> 0])
      ea == Do("ea_calc", HumidityArgs(kw))
      rns == Do("shortwave_r", ShortwaveArgs(kw))
      rnl == Do("longwave_r", LongwaveArgs(kw, ea.val))
      net == IF IsNone(kw.net) THEN Sub(rns, rnl.val) ELSE kw.net
      S(i) == CASE i = 1 -> Stmt(ta)
                [] i = 2 -> Call("lambda_calc", Stmt(lambd))
                [] i = 3 -> Call("press_calc", Stmt(pressure))
                [] i = 4 -> Call("psy_calc", Stmt(gamma))
                [] i = 5 -> Call("vpc_calc", Stmt(dlt))
                [] i = 6 -> Call("ea_calc", ea)
                [] i = 7 -> IF IsNone(kw.net) THEN Call("shortwave_r", Stmt(rns)) ELSE Stmt(None)
                [] i = 8 -> IF IsNone(kw.net) THEN Call("longwave_r", rnl) ELSE Stmt(None)
                [] i = 9 -> Stmt(net)
                [] i = 10 -> Stmt(Add(Div(Mul(Mul(kw.alpha, dlt), net), Mul(lambd, Add(dlt, gamma))),
                                  Mul(Mul(gamma, ea.val), kw.wind)))
  IN Run(S, 10)

priestley_taylor(kw) ==
  LET ta == Div(Add(kw.tmax, kw.tmin), PyInt(2))
      lambd == Do("lambda_calc", [temperature |-> ta])
      pressure == Do("press_calc", [elevation |-> kw.elevation, power |-> Lit(526, 2)])
      gamma == Do("psy_calc", [pressure |-> pressure, lambd |-> None])
      dlt == Do("vpc_calc", [temperature |-> ta, tmin |-> None, tmax |-> None, method |-> 0])
      ea == Do("ea_calc", HumidityArgs(kw))
      rns == Do("shortwave_r", ShortwaveArgs(kw))
      rnl == Do("longwave_r", LongwaveArgs(kw, ea.val))
      net == IF IsNone(kw.net) THEN Sub(rns, rnl.val) ELSE kw.net
      S(i) == CASE i = 1 -> Stmt(ta)
                [] i = 2 -> Call("lambda_calc", Stmt(lambd))
                [] i = 3 -> Call("press_calc", Stmt(pressure))
                [] i = 4 -> Call("psy_calc", Stmt(gamma))
                [] i = 5 -> Call("vpc_calc", Stmt(dlt))
                [] i = 6 -> Call("ea_calc", ea)
                [] i = 7 -> IF IsNone(kw.net) THEN Call("shortwave_r", Stmt(rns)) ELSE Stmt(None)
                [] i = 8 -> IF IsNone(kw.net) THEN Call("longwave_r", rnl) ELSE Stmt(None)
                [] i = 9 -> Stmt(net)
                [] i = 10 -> Stmt(Div(Mul(Mul(kw.alpha, dlt), net), Mul(lambd, Add(dlt, gamma))))
  IN Run(S, 10)


Tuple(v) == [k |-> "tuple", v |-> v]

pm_fao1990(kw) ==
  LET ta == Div(Add(Do("Round8", [a |-> kw.tmax]), Do("Round8", [a |-> kw.tmin])), PyInt(2))
      lambd == Do("Round8", [a |-> Do("lambda_calc", [temperature |-> ta])])
      pressure == Do("press_calc", [elevation |-> kw.elevation, power |-> Lit(5253, 3)])
      gamma == Do("psy_calc", [pressure |-> pressure, lambd |-> lambd])
      eamax == Do("e0_calc", [temperature |-> kw.tmax])
      eamin == Do("e0_calc", [temperature |-> kw.tmin])
      dlt == Do("vpc_calc", [temperature |-> None, tmin |-> kw.tmin, tmax |-> kw.tmax, method |-> 1])
      aerdyn == Do("calc_ra", [wind |-> None, croph |-> kw.croph, method |-> 2])
      raa == Div(aerdyn, kw.wind)
      gamma1 == Mul(gamma, Add(PyInt(1), Div(PyInt(60), raa)))
      eamean == Div(Add(eamax, eamin), PyInt(2))
      eadew == Do("ed_calc", [tmax |-> kw.tmax, tmin |-> kw.tmin, rh |-> kw.rh])
      gm_dl == Div(gamma, Add(dlt, gamma1))
      aerotcff == Div(Div(Mul(Mul(Lit(622, 3), Lit(3486, 3)), PyInt(86400)), aerdyn), Lit(101, 2))
      etaero == Mul(Mul(Div(Mul(gm_dl, aerotcff), Add(ta, PyInt(273))), kw.wind), Sub(eamean, eadew))
      dl_dl == Div(dlt, Add(dlt, gamma1))
      rns == Do("calc_rns", [solar |-> kw.solar, meteoindex |-> None, lat |-> None,
                             alpha |-> Lit(23, 2), env |-> kw.env])
      rso == Do("rs_calc", [meteoindex |-> IndexOf(kw.solar), lat |-> kw.latitude,
                            a_s |-> Lit(25, 2), b_s |-> Lit(5, 1), env |-> kw.env])
      cloudf == Do("cloudiness_factor", [rs |-> kw.solar, rso |-> rso, ac |-> Lit(135, 2),
                                         bc |-> Sub(PyInt(0), Lit(35, 2))])
      rnl == Do("calc_rnl", [tmax |-> kw.tmax, tmin |-> kw.tmin, ea |-> eadew, cloudf |-> cloudf,
                             longa |-> Lit(34, 2), longb |-> Sub(PyInt(0), Lit(139, 3))])
      rn == Sub(rns, rnl)
      radterm == Div(Mul(dl_dl, Sub(rn, PyInt(0))), lambd)
      pm == Mul(Add(etaero, radterm),
                Add(Sub(PyInt(1), Mul(Lit(737, 8), Pow(Sub(ta, PyInt(4)), PyInt(2)))),
                    Mul(Lit(379, 10), Pow(Sub(ta, PyInt(4)), PyInt(3)))))
      S(i) == CASE i = 1 -> Stmt(ta)
                [] i = 2 -> Call("lambda_calc", Stmt(lambd))
                [] i = 3 -> Call("press_calc", Stmt(pressure))
                [] i = 4 -> Call("psy_calc", Stmt(gamma))
                [] i = 5 -> Call("e0_calc", Stmt(eamax))
                [] i = 6 -> Call("e0_calc", Stmt(eamin))
                [] i = 7 -> Call("vpc_calc", Stmt(dlt))
                [] i = 8 -> Call("calc_ra", Stmt(aerdyn))
                [] i = 9 -> Stmt(raa)
                [] i = 10 -> Stmt(gamma1)
                [] i = 11 -> Stmt(eamean)
                [] i = 12 -> Call("ed_calc", Stmt(eadew))
                [] i = 13 -> Stmt(gm_dl)
                [] i = 14 -> Stmt(aerotcff)
                [] i = 15 -> Stmt(etaero)
                [] i = 16 -> Stmt(dl_dl)
                [] i = 17 -> Call("calc_rns", Stmt(rns))
                [] i = 18 -> IF IsExc(IndexOf(kw.solar)) THEN Stmt(IndexOf(kw.solar))
                             ELSE Call("rs_calc", Stmt(rso))
                [] i = 19 -> Call("cloudiness_factor", Stmt(cloudf))
                [] i = 20 -> Call("calc_rnl", Stmt(rnl))
                [] i = 21 -> Stmt(rn)
                [] i = 22 -> Stmt(radterm)
                [] i = 23 -> Stmt(pm)
                [] i = 24 -> Stmt(Tuple(<<rnl, rns, radterm, etaero, pm>>))
  IN Run(S, 24)


(***************************************************************************)
(* Inputs                                                                  *)
(***************************************************************************)
MaxLen == 2
Index(n) == [i \in 1..n |-> i]
Indexes == {Index(n) : n \in 1..MaxLen}
OfDays(vals, idx) == Series(idx, [i \in 1..Len(idx) |-> FromInt(vals[idx[i]])])

TempOfDay == <<25, 2, 20, 23>>
ScalarTemps == {2, 20}
TempInputs == {PyInt(t) : t \in ScalarTemps} \cup {OfDays(TempOfDay, idx) : idx \in Indexes}
RhOfDay == <<100, 60, 80, 40>>
RhInputs == {None, PyInt(100), PyInt(60), OfDays(RhOfDay, Index(MaxLen))}

\* A formula is called with Python numbers (shape <<>>) or with Series that
\* share the index shape; the wind may come on an index of its own.
Shapes == {<<>>, Index(MaxLen)}
Arg(shape, vals) == IF shape = <<>> THEN PyInt(vals[1]) ELSE OfDays(vals, shape)

\* the value of each argument on days 1, 2, ...; calm is a wind that drops to zero
OfDay ==
  [tmax |-> <<25, 22, 20, 23>>,
   tmin |-> <<15, 12, 13, 11>>,
   rh |-> <<60, 70, 80, 65>>,
   rhmax |-> <<80, 90, 85, 95>>,
   rhmin |-> <<40, 50, 45, 55>>,
   solar |-> <<5, 4, 6, 7>>,
   net |-> <<3, 2, 4, 5>>,
   n |-> <<6, 5, 7, 4>>,
   nn |-> <<9, 9, 9, 9>>,
   rso |-> <<7, 7, 8, 8>>,
   wind |-> <<2, 3, 1, 4>>,
   calm |-> <<2, 0, 1, 0>>,
   lai |-> <<3, 0, 2, 4>>]

Elevation == PyInt(100)
Latitude == Lit(9, 1)

\* steady wind, wind that drops to zero, wind recorded from the second day on
WindInputs(shape) ==
  IF shape = <<>> THEN {PyInt(2), PyInt(0)}
  ELSE {OfDays(OfDay.wind, shape), OfDays(OfDay.calm, shape), OfDays(OfDay.wind, Tail(shape))}

Hums == {"none", "rh", "extremes"}
Hum(shape, hum) ==
  CASE hum = "none" -> [rhmax |-> None, rhmin |-> None, rh |-> None]
    [] hum = "rh" -> [rhmax |-> None, rhmin |-> None, rh |-> Arg(shape, OfDay.rh)]
    [] hum = "extremes" -> [rhmax |-> Arg(shape, OfDay.rhmax), rhmin |-> Arg(shape, OfDay.rhmin),
                            rh |-> None]

Rads == {"net", "solar", "solar_rso", "sunshine", "sunshine_rso"}
Rad(shape, rad) ==
  [net |-> IF rad = "net" THEN Arg(shape, OfDay.net) ELSE None,
   solar |-> IF rad \in {"net", "solar", "solar_rso"} THEN Arg(shape, OfDay.solar) ELSE None,
   rso |-> IF rad \in {"solar_rso", "sunshine_rso"} THEN Arg(shape, OfDay.rso) ELSE None,
   n |-> IF rad \in {"sunshine", "sunshine_rso"} THEN Arg(shape, OfDay.n) ELSE None,
   nn |-> IF rad \in {"sunshine", "sunshine_rso"} THEN Arg(shape, OfDay.nn) ELSE None]

\* what the astronomy helpers make of a missing index: an exception or a value
NoIndex == Raise("AttributeError")
NoIndexOutcomes == {NoIndex, Np(NaN)}
Envs(rad) == IF rad \in {"sunshine", "sunshine_rso"} THEN NoIndexOutcomes ELSE {NoIndex}

\* the defaults of the keyword arguments a caller leaves out
Defaults(f) ==
  CASE f = "penman" -> [sflux |-> PyInt(0), a |-> Lit(26, 1), b |-> Lit(536, 3)]
    [] f = "pm_fao56" -> [sflux |-> PyInt(0)]
    [] f = "pm_1965" -> [sflux |-> PyInt(0)]
    [] f = "priestley_taylor" -> [alpha |-> Lit(126, 2)]
    [] f = "pm_fao1990" -> [croph |-> None]

\* the keyword arguments of a call of formula f
Weather(f, shape, wind, hum, rad, env) ==
  LET h == Hum(shape, hum)
      r == Rad(shape, rad)
  IN [wind |-> wind, elevation |-> Elevation, latitude |-> Latitude, solar |-> r.solar,
      net |-> r.net, tmax |-> Arg(shape, OfDay.tmax), tmin |-> Arg(shape, OfDay.tmin),
      rhmax |-> h.rhmax, rhmin |-> h.rhmin, rh |-> h.rh, n |-> r.n, nn |-> r.nn,
      rso |-> r.rso, env |-> env] @@ Defaults(f)

LaiInputs(shape) ==
  {None, PyInt(0), PyInt(3)} \cup (IF shape = <<>> THEN {Np(Zero)} ELSE {OfDays(OfDay.lai, shape)})

\* (rc, lai, ra) of pm_1965
Resistances(shape) ==
  {[rc |-> 1, lai |-> None, ra |-> 1], [rc |-> 1, lai |-> None, ra |-> 2]}
  \cup {[rc |-> 2, lai |-> lai, ra |-> 1] : lai \in LaiInputs(shape)}

CrophInputs == {Lit(12, 2), Lit(5, 1)}

(***************************************************************************)
(* The call of a function by name                                          *)
(***************************************************************************)
Do(f, a) ==
  CASE f = "FRound" -> FRound(a.s, a.a, a.e, a.sticky)
    [] f = "+" -> FAdd(a.x, a.y)
    [] f = "-" -> FSub(a.x, a.y)
    [] f = "*" -> FMul(a.x, a.y)
    [] f = "/" -> FDiv(a.x, a.y)
    [] f = "**" -> FPow(a.x, a.y)
    [] f = "Dec" -> Dec(a.n, a.k)
    [] f = "exp" -> FExp(a.x)
    [] f = "log" -> FLog(a.x)
    [] f = "sin" -> FSin(a.x)
    [] f = "cos" -> FCos(a.x)
    [] f = "sqrt" -> FSqrt(a.x)
    [] f = "rint" -> FRint(a.x)
    [] f = "FRound8Np" -> FRound8Np(a.x)
    [] f = "FRound8Py" -> FRound8Py(a.x)
    [] f = "Round8" -> Round8(a.a)
    [] f = "Bin" -> Bin(a.op, a.a, a.b)
    [] f = "e0_calc" -> e0_calc(a.temperature)
    [] f = "es_calc" -> es_calc(a.tmax, a.tmin)
    [] f = "ea_calc" -> ea_calc(a.tmax, a.tmin, a.rhmax, a.rhmin, a.rh)
    [] f = "extraterrestrial_r" -> extraterrestrial_r(a.meteoindex, a.lat, a.env)
    [] f = "daylight_hours" -> daylight_hours(a.meteoindex, a.lat, a.env)
    [] f = "vpc_calc" -> vpc_calc(a.temperature, a.tmin, a.tmax, a.method)
    [] f = "rso_calc" -> rso_calc(a.ra, a.elevation)
    [] f = "psy_calc" -> psy_calc(a.pressure, a.lambd)
    [] f = "press_calc" -> press_calc(a.elevation, a.power)
    [] f = "rc_calc" -> rc_calc(a.lai, a.method)
    [] f = "lambda_calc" -> lambda_calc(a.temperature)
    [] f = "calc_rhoa" -> calc_rhoa(a.pressure, a.ta)
    [] f = "calc_ra" -> calc_ra(a.wind, a.croph, a.method)
    [] f = "in_solar_r" -> in_solar_r(a.meteoindex, a.lat, a.a_s, a.b_s, a.n, a.nn, a.env)
    [] f = "shortwave_r" -> shortwave_r(a.solar, a.meteoindex, a.lat, a.alpha, a.n, a.nn, a.env)
    [] f = "longwave_r" -> longwave_r(a.solar, a.tmax, a.tmin, a.rhmax, a.rhmin, a.rh, a.rso,
                                      a.elevation, a.lat, a.ea, a.env)
    [] f = "ed_calc" -> ed_calc(a.tmax, a.tmin, a.rh)
    [] f = "cloudiness_factor" -> cloudiness_factor(a.rs, a.rso, a.ac, a.bc)
    [] f = "ra_calc" -> ra_calc(a.meteoindex, a.lat, a.env)
    [] f = "rs_calc" -> rs_calc(a.meteoindex, a.lat, a.a_s, a.b_s, a.env)
    [] f = "calc_rns" -> calc_rns(a.solar, a.meteoindex, a.lat, a.alpha, a.env)
    [] f = "calc_rnl" -> calc_rnl(a.tmax, a.tmin, a.ea, a.cloudf, a.longa, a.longb)
    [] f = "TempInputs" -> TempInputs
    [] f = "RhInputs" -> RhInputs
    [] f = "WindInputs" -> WindInputs(a.shape)
    [] f = "LaiInputs" -> LaiInputs(a.shape)
    [] f = "Resistances" -> Resistances(a.shape)
    [] f = "CrophInputs" -> CrophInputs
    [] f = "Arg" -> Arg(a.shape, a.vals)
    [] f = "Weather" -> Weather(a.f, a.shape, a.wind, a.hum, a.rad, a.env)
    [] f = "penman" -> penman(a)
    [] f = "pm_fao56" -> pm_fao56(a)
    [] f = "pm_1965" -> pm_1965(a)
    [] f = "pm_fao1990" -> pm_fao1990(a)
    [] f = "priestley_taylor" -> priestley_taylor(a)

(***************************************************************************)
(* One call per behaviour: the caller picks a function and its arguments,  *)
(* the call runs to its return or to the exception it raises.              *)
(***************************************************************************)
VARIABLES pc, fn, args, ret, out, calls

vars == <<pc, fn, args, ret, out, calls>>

Init ==
  /\ pc = "idle"
  /\ fn = "none"
  /\ args = <<>>
  /\ ret = None
  /\ out = <<>>
  /\ calls = <<>>

\* the call of f with arguments a has run and ended with res
Ends(f, a, res) ==
  /\ pc' = "done"
  /\ fn' = f
  /\ args' = a
  /\ ret' = res.val
  /\ out' = res.out
  /\ calls' = res.calls

Call_e0_calc ==
  \E temperature \in Do("TempInputs", <<>>) :
    \E a \in {[temperature |-> temperature]} :
      /\ pc = "idle"
      /\ Ends("e0_calc", a, Stmt(Do("e0_calc", a)))

Call_es_calc ==
  \E tmax \in Do("TempInputs", <<>>), tmin \in Do("TempInputs", <<>>) :
    \E a \in {[tmax |-> tmax, tmin |-> tmin]} :
      /\ pc = "idle"
      /\ Ends("es_calc", a, Stmt(Do("es_calc", a)))

Call_ea_calc ==
  \E tmax \in Do("TempInputs", <<>>), tmin \in Do("TempInputs", <<>>) :
    \E rhmax \in Do("RhInputs", <<>>), rhmin \in Do("RhInputs", <<>>),
       rh \in Do("RhInputs", <<>>) :
      \E a \in {[tmax |-> tmax, tmin |-> tmin, rhmax |-> rhmax, rhmin |-> rhmin, rh |-> rh]} :
        /\ pc = "idle"
        /\ Ends("ea_calc", a, Do("ea_calc", a))

\* vpc_calc on the mean temperature (method 0) or on the two extremes (method 1)
Call_vpc_calc ==
  \E method \in 0..1, tmax \in Do("TempInputs", <<>>), tmin \in Do("TempInputs", <<>>) :
    \E a \in {IF method = 0
                THEN [temperature |-> tmax, tmin |-> None, tmax |-> None, method |-> method]
                ELSE [temperature |-> None, tmin |-> tmin, tmax |-> tmax, method |-> method]} :
      /\ pc = "idle"
      /\ Ends("vpc_calc", a, Stmt(Do("vpc_calc", a)))

NextHumidity ==
  \/ Call_e0_calc
  \/ Call_es_calc
  \/ Call_ea_calc
  \/ Call_vpc_calc

SpecHumidity == Init /\ [][NextHumidity]_vars

Call_penman ==
  \E shape \in Shapes, hum \in Hums, rad \in Rads :
    \E wind \in Do("WindInputs", [shape |-> shape]), env \in Envs(rad) :
      \E kw \in {Do("Weather", [f |-> "penman", shape |-> shape, wind |-> wind, hum |-> hum,
                                rad |-> rad, env |-> env])} :
        /\ pc = "idle"
        /\ Ends("penman", kw, Do("penman", kw))

Call_pm_fao56 ==
  \E shape \in Shapes, hum \in Hums, rad \in Rads :
    \E wind \in Do("WindInputs", [shape |-> shape]), env \in Envs(rad) :
      \E kw \in {Do("Weather", [f |-> "pm_fao56", shape |-> shape, wind |-> wind, hum |-> hum,
                                rad |-> rad, env |-> env])} :
        /\ pc = "idle"
        /\ Ends("pm_fao56", kw, Do("pm_fao56", kw))

Call_pm_1965 ==
  \E shape \in Shapes, rad \in {"net", "solar"} :
    \E wind \in Do("WindInputs", [shape |-> shape]), res \in Do("Resistances", [shape |-> shape]) :
      \E kw \in {res @@ Do("Weather", [f |-> "pm_1965", shape |-> shape, wind |-> wind,
                                       hum |-> "rh", rad |-> rad, env |-> NoIndex])} :
        /\ pc = "idle"
        /\ Ends("pm_1965", kw, Do("pm_1965", kw))

Call_priestley_taylor ==
  \E shape \in Shapes, hum \in Hums, rad \in Rads :
    \E wind \in Do("WindInputs", [shape |-> shape]), env \in Envs(rad) :
      \E kw \in {Do("Weather", [f |-> "priestley_taylor", shape |-> shape, wind |-> wind,
                                hum |-> hum, rad |-> rad, env |-> env])} :
        /\ pc = "idle"
        /\ Ends("priestley_taylor", kw, Do("priestley_taylor", kw))

\* pm_fao1990 takes the mean humidity only and no net radiation
Call_pm_fao1990 ==
  \E shape \in Shapes, croph \in Do("CrophInputs", <<>>) :
    \E wind \in Do("WindInputs", [shape |-> shape]) :
      \E w \in {Do("Weather", [f |-> "pm_fao1990", shape |-> shape, wind |-> wind,
                               hum |-> "rh", rad |-> "solar", env |-> NoIndex])} :
        \E kw \in {[wind |-> w.wind, elevation |-> w.elevation, latitude |-> w.latitude,
                    solar |-> w.solar, tmax |-> w.tmax, tmin |-> w.tmin, rh |-> w.rh,
                    croph |-> croph, env |-> w.env]} :
          /\ pc = "idle"
          /\ Ends("pm_fao1990", kw, Do("pm_fao1990", kw))

Call_rc_calc ==
  \E shape \in Shapes, method \in 1..3 :
    \E lai \in Do("LaiInputs", [shape |-> shape]) :
      \E a \in {[lai |-> lai, method |-> method]} :
        /\ pc = "idle"
        /\ Ends("rc_calc", a, Stmt(Do("rc_calc", a)))

Call_calc_ra ==
  \E shape \in Shapes, method \in 1..2, croph \in Do("CrophInputs", <<>>) \cup {None} :
    \E wind \in Do("WindInputs", [shape |-> shape]) \cup {None} :
      \E a \in {[wind |-> wind, croph |-> croph, method |-> method]} :
        /\ pc = "idle"
        /\ Ends("calc_ra", a, Stmt(Do("calc_ra", a)))

NextFormulas ==
  \/ Call_penman
  \/ Call_pm_fao56
  \/ Call_pm_1965
  \/ Call_pm_fao1990
  \/ Call_priestley_taylor
  \/ Call_rc_calc
  \/ Call_calc_ra

SpecFormulas == Init /\ [][NextFormulas]_vars

Next ==
  \/ NextHumidity
  \/ NextFormulas

Spec == Init /\ [][Next]_vars

(***************************************************************************)
(* Properties                                                              *)
(***************************************************************************)
Returned(f) == pc = "done" /\ fn = f
Has(a) == ~IsNone(a)
MissingInputError == Raise("MissingInputError")
DomainError == Raise("DomainError")
ShapeMismatchError == Raise("ShapeMismatchError")

\* C1: ea_calc called with rhmax, rhmin and rh all omitted raises
\* MissingInputError to its caller; it prints nothing and does not return None.
C1_MissingHumidityRaises ==
  (Returned("ea_calc") /\ IsNone(args.rhmax) /\ IsNone(args.rhmin) /\ IsNone(args.rh))
    => (ret = MissingInputError /\ out = <<>>)

\* C3: ea_calc takes exactly one branch, in the priority rhmax and rhmin ->
\* eamin*rhmax/200 + eamax*rhmin/200; rhmax only -> eamin*rhmax/100; rhmin only
\* -> eamin; rh with neither rhmax nor rhmin -> rh/200*(eamax+eamin); and the
\* error case is taken exactly when all three are absent.
C3_BranchPriority ==
  Returned("ea_calc") =>
    LET eamax == Do("e0_calc", [temperature |-> args.tmax])
        eamin == Do("e0_calc", [temperature |-> args.tmin])
        rhmax == args.rhmax
        rhmin == args.rhmin
        rh == args.rh
    IN /\ (Has(rhmax) /\ Has(rhmin)) =>
            ret = Add(Div(Mul(eamin, rhmax), PyInt(200)), Div(Mul(eamax, rhmin), PyInt(200)))
       /\ (Has(rhmax) /\ ~Has(rhmin)) => ret = Div(Mul(eamin, rhmax), PyInt(100))
       /\ (~Has(rhmax) /\ Has(rhmin)) => ret = eamin
       /\ (~Has(rhmax) /\ ~Has(rhmin) /\ Has(rh)) =>
            ret = Mul(Div(rh, PyInt(200)), Add(eamax, eamin))
       /\ (out = <<"error">>) <=> (~Has(rhmax) /\ ~Has(rhmin) /\ ~Has(rh))
       /\ out \in {<<>>, <<"error">>}

\* a call with all three humidity inputs present whose rh would give another value
C3_Witness ==
  /\ Returned("ea_calc")
  /\ Has(args.rhmax) /\ Has(args.rhmin) /\ Has(args.rh)
  /\ ~IsExc(ret)
  /\ ret # Mul(Div(args.rh, PyInt(200)), Add(Do("e0_calc", [temperature |-> args.tmax]), Do("e0_calc", [temperature |-> args.tmin])))

\* |x - y| <= 2^-52 * |y|: x and y agree up to the rounding of two operations
Close(x, y) ==
  LET d == FSub(x, y)
  IN \/ x = y
     \/ /\ d.c = "fin" /\ y.c = "fin"
        /\ IF d.e >= y.e - 52
             THEN BCmp(BShl(d.m, d.e - (y.e - 52)), y.m) <= 0
             ELSE BCmp(d.m, BShl(y.m, (y.e - 52) - d.e)) <= 0

CloseValues(a, b) ==
  /\ a.k = b.k
  /\ IF a.k = "S"
       THEN a.idx = b.idx /\ \A i \in 1..Len(a.idx) : Close(a.v[i], b.v[i])
       ELSE Close(a.v, b.v)

Saturated(a) ==
  /\ Has(a)
  /\ IF a.k = "S" THEN \A i \in 1..Len(a.idx) : a.v[i] = FromInt(100)
                  ELSE a.v = FromInt(100)

SameValue(a, b) ==
  IF a.k = "S" /\ b.k = "S" THEN a.idx = b.idx /\ a.v = b.v
  ELSE a.k # "S" /\ b.k # "S" /\ a.v = b.v

\* C10 as stated: with tmax = tmin = T, ea_calc with rh = 100, ea_calc with
\* rhmax = rhmin = 100 and es_calc all return exactly e0_calc(T).
C10_SaturatedEqualsE0 ==
  /\ (Returned("ea_calc") /\ args.tmax = args.tmin
        /\ ~Has(args.rhmax) /\ ~Has(args.rhmin) /\ Saturated(args.rh))
       => SameValue(ret, Do("e0_calc", [temperature |-> args.tmax]))
  /\ (Returned("ea_calc") /\ args.tmax = args.tmin
        /\ Saturated(args.rhmax) /\ Saturated(args.rhmin))
       => SameValue(ret, Do("e0_calc", [temperature |-> args.tmax]))
  /\ (Returned("es_calc") /\ args.tmax = args.tmin)
       => SameValue(ret, Do("e0_calc", [temperature |-> args.tmax]))

\* C10 amended: with tmax = tmin = T, ea_calc with rh = 100 and es_calc return
\* exactly e0_calc(T); ea_calc with rhmax = rhmin = 100 returns e0_calc(T) up
\* to rounding (relative difference at most 2^-52), not always the same float.
C10_SaturatedNearE0 ==
  /\ (Returned("ea_calc") /\ args.tmax = args.tmin
        /\ ~Has(args.rhmax) /\ ~Has(args.rhmin) /\ Saturated(args.rh))
       => SameValue(ret, Do("e0_calc", [temperature |-> args.tmax]))
  /\ (Returned("ea_calc") /\ args.tmax = args.tmin
        /\ Saturated(args.rhmax) /\ Saturated(args.rhmin))
       => CloseValues(ret, Do("e0_calc", [temperature |-> args.tmax]))
  /\ (Returned("es_calc") /\ args.tmax = args.tmin)
       => SameValue(ret, Do("e0_calc", [temperature |-> args.tmax]))

\* a saturated two-extreme call whose result is near but not equal to e0_calc(T)
C10_Witness ==
  /\ Returned("ea_calc") /\ args.tmax = args.tmin
  /\ Saturated(args.rhmax) /\ Saturated(args.rhmin)
  /\ CloseValues(ret, Do("e0_calc", [temperature |-> args.tmax]))
  /\ ~SameValue(ret, Do("e0_calc", [temperature |-> args.tmax]))

Formulas == {"penman", "pm_fao56", "pm_1965", "priestley_taylor"}
NoHumidity(a) == IsNone(a.rh) /\ IsNone(a.rhmax) /\ IsNone(a.rhmin)

\* C2: pm_fao56 called with tmax, tmin, wind, elevation, latitude and solar
\* but with none of rh, rhmax, rhmin raises MissingInputError, whether net
\* is omitted or supplied.
C2_Fao56MissingHumidityRaises ==
  (Returned("pm_fao56") /\ NoHumidity(args) /\ Has(args.solar))
    => ret = MissingInputError

HasCall(name) == \E i \in 1..Len(calls) : calls[i] = name

\* shortwave_r minus longwave_r, each called on the inputs a of the formula
NetOf(a) ==
  LET ea == Do("ea_calc", [tmax |-> a.tmax, tmin |-> a.tmin, rhmax |-> a.rhmax,
                           rhmin |-> a.rhmin, rh |-> a.rh]).val
      rns == Do("shortwave_r", [solar |-> a.solar, meteoindex |-> None, lat |-> None,
                                alpha |-> Lit(23, 2), n |-> a.n, nn |-> a.nn, env |-> a.env])
      rnl == Do("longwave_r", [solar |-> a.solar, tmax |-> a.tmax, tmin |-> a.tmin,
                               rhmax |-> a.rhmax, rhmin |-> a.rhmin, rh |-> a.rh,
                               rso |-> a.rso, elevation |-> a.elevation, lat |-> a.latitude,
                               ea |-> ea, env |-> a.env]).val
  IN Sub(rns, rnl)

\* C4: in penman, pm_fao56, pm_1965 and priestley_taylor a call without net
\* computes net as shortwave_r(...) - longwave_r(...) from the same inputs
\* (its outcome is that of the call given this net, and it fails when the net
\* cannot be computed); a call with net uses it unchanged and evaluates
\* neither helper, so the radiation inputs do not matter to it.
C4_NetRadiation ==
  (pc = "done" /\ fn \in Formulas) =>
    IF Has(args.net)
      THEN /\ ~HasCall("shortwave_r") /\ ~HasCall("longwave_r")
           /\ ret = Do(fn, [args EXCEPT !.solar = None, !.rso = None,
                                        !.n = None, !.nn = None]).val
      ELSE LET net == NetOf(args)
           IN /\ ~IsExc(ret) => (HasCall("shortwave_r") /\ HasCall("longwave_r"))
              /\ IF IsExc(net) THEN IsExc(ret)
                 ELSE ret = Do(fn, [args EXCEPT !.net = net]).val

\* a penman call without net that returns a Series of evapotranspiration
C4_Witness ==
  /\ Returned("penman")
  /\ IsNone(args.net)
  /\ ret.k = "S"
  /\ HasCall("shortwave_r") /\ HasCall("longwave_r")

\* C5: a formula called with neither net nor solar but with the sunshine
\* hours n and the day length nn takes the Angstrom fallback for the incoming
\* solar radiation and completes with an evapotranspiration value.
C5_SunshineFallbackCompletes ==
  (pc = "done" /\ fn \in Formulas /\ IsNone(args.net) /\ IsNone(args.solar)
     /\ Has(args.n) /\ Has(args.nn) /\ ~NoHumidity(args))
    => (~IsExc(ret) /\ ~IsNone(ret))

\* a number, or every element of a Series, is greater than zero
Positive(a) ==
  CASE a.k \in {"py", "np"} -> a.v.c = "fin" /\ a.v.s = 0 /\ ~IsZero(a.v)
    [] a.k = "S" -> \A i \in 1..Len(a.v) : a.v[i].c = "fin" /\ a.v[i].s = 0 /\ ~IsZero(a.v[i])
    [] OTHER -> FALSE

Aligned(a) == a.wind.k = "S" => a.wind.idx = a.tmax.idx

\* C6: pm_fao1990 called with wind > 0, elevation, latitude, solar, tmax,
\* tmin, rh and croph > 0 completes and returns the five values
\* (rnl, rns, radterm, etaero, pm).
C6_Fao1990ReturnsFive ==
  (Returned("pm_fao1990") /\ Positive(args.wind) /\ Aligned(args) /\ Positive(args.croph)
     /\ Has(args.solar) /\ Has(args.tmax) /\ Has(args.tmin) /\ Has(args.rh))
    => (ret.k = "tuple" /\ Len(ret.v) = 5)

\* a number that is zero, or a Series with a zero element
ZeroSomewhere(a) ==
  CASE a.k \in {"py", "np"} -> IsZero(a.v)
    [] a.k = "S" -> \E i \in 1..Len(a.v) : IsZero(a.v[i])
    [] OTHER -> FALSE

\* C7: rc_calc returns 70 for method 1 and 200/lai for method 2 with a
\* non-zero lai; with method 2 and lai absent or zero it raises
\* MissingInputError, and so does pm_1965 called with rc=2 and no lai.
C7_CanopyResistance ==
  /\ Returned("rc_calc") =>
       /\ args.method = 1 => ret = PyInt(70)
       /\ (args.method = 2 /\ Has(args.lai) /\ ~ZeroSomewhere(args.lai))
            => ret = Div(PyInt(200), args.lai)
       /\ (args.method = 2 /\ (IsNone(args.lai) \/ ZeroSomewhere(args.lai)))
            => ret = MissingInputError
  /\ (Returned("pm_1965") /\ args.rc = 2 /\ IsNone(args.lai) /\ Positive(args.wind))
       => ret = MissingInputError

\* C8: a formula given Series that do not share one length and index raises
\* ShapeMismatchError; it returns nothing obtained by aligning them.
C8_MisalignedSeriesRejected ==
  (pc = "done" /\ fn \in Formulas \cup {"pm_fao1990"} /\ ~Aligned(args))
    => ret = ShapeMismatchError

\* C9: pm_1965 (208 / wind) and pm_fao1990 (aerdyn / wind) called with a wind
\* speed of 0 at any timestep raise DomainError; no evapotranspiration comes
\* out of a division by zero.
C9_ZeroWindRejected ==
  (pc = "done" /\ fn \in {"pm_1965", "pm_fao1990"} /\ ZeroSomewhere(args.wind))
    => ret = DomainError

\* alpha * dlt * net / (lambd * (dlt + gamma)) of the temperatures, the
\* elevation and the net radiation of a call
RadiationEstimate(a) ==
  LET ta == Div(Add(a.tmax, a.tmin), PyInt(2))
      lambd == Do("lambda_calc", [temperature |-> ta])
      pressure == Do("press_calc", [elevation |-> a.elevation, power |-> Lit(526, 2)])
      gamma == Do("psy_calc", [pressure |-> pressure, lambd |-> None])
      dlt == Do("vpc_calc", [temperature |-> ta, tmin |-> None, tmax |-> None, method |-> 0])
  IN Div(Mul(Mul(a.alpha, dlt), a.net), Mul(lambd, Add(dlt, gamma)))

\* C11: the outcome of a priestley_taylor call is that of the same call with
\* any other wind (here a steady wind of 2), and with net supplied it is
\* alpha * dlt * net / (lambd * (dlt + gamma)), whatever the humidity inputs
\* are, all of them omitted included.
C11_RadiationDriven ==
  (pc = "done" /\ fn = "priestley_taylor") =>
    /\ ret = Do("priestley_taylor", [args EXCEPT !.wind = PyInt(2)]).val
    /\ Has(args.net) => ret = RadiationEstimate(args)

\* a call with net and without any humidity input, at a wind other than 2,
\* that returns a Series
C11_Witness ==
  /\ Returned("priestley_taylor")
  /\ Has(args.net) /\ NoHumidity(args)
  /\ args.wind # PyInt(2)
  /\ ret.k = "S"

\* the call ended in an exception raised by the helper called last
FailedIn(name) == IsExc(ret) /\ calls # <<>> /\ calls[Len(calls)] = name

\* C12: pm_1965 with net, a wind above zero and the constant canopy
\* resistance returns an ET value under both selectors ra = 1 and ra = 2,
\* and no formula called with a wind above zero (and, for pm_fao1990, a crop
\* height above zero) fails inside calc_ra for want of an input of the
\* selected method.
C12_AerodynamicSelectors ==
  /\ (Returned("pm_1965") /\ Has(args.net) /\ Positive(args.wind) /\ args.rc = 1
        /\ args.ra \in {1, 2})
       => (~IsExc(ret) /\ ~IsNone(ret))
  /\ (pc = "done" /\ fn \in {"pm_1965", "pm_fao1990"} /\ Positive(args.wind)
        /\ (fn = "pm_fao1990" => Positive(args.croph)))
       => ~FailedIn("calc_ra")

\* pm_1965 with ra = 1, net and a wind above zero returns a value
C12_Witness ==
  /\ Returned("pm_1965")
  /\ args.ra = 1 /\ args.rc = 1 /\ Has(args.net) /\ Positive(args.wind)
  /\ ~IsExc(ret) /\ ~IsNone(ret)

\* c * e0(t) / (t + 237.3)^2
SlopeTerm(c, t) ==
  Div(Mul(PyInt(c), Do("e0_calc", [temperature |-> t])), Pow(Add(t, Lit(2373, 1)), PyInt(2)))

\* C13: vpc_calc with method 0 returns 4098 * e0(T) / (T + 237.3)^2 of the
\* mean temperature; with method 1 it returns the sum of the two half-slopes
\* 2049 * e0(t) / (t + 237.3)^2 at tmax and at tmin, each rounded to 8
\* decimals before they are added.
C13_SlopeRoundedPerTerm ==
  Returned("vpc_calc") =>
    IF args.method = 0
      THEN ret = SlopeTerm(4098, args.temperature)
      ELSE ret = Add(Do("Round8", [a |-> SlopeTerm(2049, args.tmax)]),
                     Do("Round8", [a |-> SlopeTerm(2049, args.tmin)]))

\* a method 1 call that returns a number
C13_Witness ==
  /\ Returned("vpc_calc")
  /\ args.method = 1
  /\ ret.k \in {"py", "np"}

====
